---------------------------- MODULE Spec2Model ----------------------------
(***************************************************************************)
(* Model of the two command-line generators of the repository:             *)
(*   scripts/create-fhevm-example.ts  (standalone-repository generator)    *)
(*   scripts/generate-docs.ts         (documentation generator)            *)
(* Each file-system call of a run is one step.  A path is the sequence of  *)
(* its components relative to the working directory; a file's content is   *)
(* a sequence of lines, a line a sequence of strings.                      *)
(* The example contracts ConfidentialERC20, BlindAuction,                  *)
(* PublicDecryptSingleValue and FHEAdd each have a specification of their  *)
(* own, in which every transaction is one step.                            *)
(***************************************************************************)
EXTENDS Integers, Sequences, FiniteSets, TLC

VARIABLES
    tool,      \* which script is invoked: "create" or "docs"
    argv,      \* process.argv.slice(2)
    fs,        \* the file system: existing path -> node
    pc,        \* position of every invocation
    status,    \* exit status of every invocation (-1: it has none)
    out,       \* lines every invocation printed with console.log
    writes,    \* destination paths every invocation handed to a write or copy
    idx,       \* forEach position of generate-docs --all
    fsStart,   \* the file system when an invocation started
    fsEnd,     \* the file system when an invocation ended
    fhe,       \* the FHE library: value and allowed addresses of every handle
    storage,   \* storage of the deployed contract (and the block timestamp)
    call       \* the latest transaction sent to a contract

generatorVars == <<tool, argv, fs, pc, status, out, writes, idx, fsStart, fsEnd>>

contractVars == <<fhe, storage, call>>

vars == <<generatorVars, contractVars>>

\* Number of successive invocations of the standalone generator.
MaxRuns == 2

Proc == 1..MaxRuns

-----------------------------------------------------------------------------
(* Registries *)

\* create-fhevm-example.ts, EXAMPLES_MAP, in declaration order.
EXAMPLES_MAP ==
  << [name |-> "fhe-add", contract |-> <<"contracts", "basic", "FHEAdd.sol">>,
      test |-> <<"test", "basic", "FHEAdd.ts">>,
      description |-> "Demonstrates FHE addition operations on encrypted values.",
      category |-> "Basic"],
     [name |-> "fhe-subtract", contract |-> <<"contracts", "basic", "FHESubtract.sol">>,
      test |-> <<"test", "basic", "FHESubtract.ts">>,
      description |-> "Shows how to perform subtraction on encrypted values with underflow protection.",
      category |-> "Basic"],
     [name |-> "fhe-equality", contract |-> <<"contracts", "basic", "FHEEquality.sol">>,
      test |-> <<"test", "basic", "FHEEquality.ts">>,
      description |-> "Compares encrypted values for equality returning encrypted boolean.",
      category |-> "Basic"],
     [name |-> "encrypt-single", contract |-> <<"contracts", "encryption", "EncryptSingleValue.sol">>,
      test |-> <<"test", "encryption", "EncryptSingleValue.ts">>,
      description |-> "Demonstrates receiving and storing a single encrypted value with input proofs.",
      category |-> "Encryption"],
     [name |-> "encrypt-multiple", contract |-> <<"contracts", "encryption", "EncryptMultipleValues.sol">>,
      test |-> <<"test", "encryption", "EncryptMultipleValues.ts">>,
      description |-> "Shows how to handle multiple encrypted values and permission management.",
      category |-> "Encryption"],
     [name |-> "user-decrypt", contract |-> <<"contracts", "decryption", "UserDecryptSingleValue.sol">>,
      test |-> <<"test", "decryption", "UserDecryptSingleValue.ts">>,
      description |-> "Demonstrates user decryption mechanism and permission requirements.",
      category |-> "Decryption"],
     [name |-> "public-decrypt", contract |-> <<"contracts", "decryption", "PublicDecryptSingleValue.sol">>,
      test |-> <<"test", "decryption", "PublicDecryptSingleValue.ts">>,
      description |-> "Shows public decryption for revealing encrypted values to everyone.",
      category |-> "Decryption"],
     [name |-> "blind-auction", contract |-> <<"contracts", "advanced", "BlindAuction.sol">>,
      test |-> <<"test", "advanced", "BlindAuction.ts">>,
      description |-> "Sealed-bid auction where bids remain encrypted during bidding phase.",
      category |-> "Advanced"],
     [name |-> "access-control", contract |-> <<"contracts", "advanced", "AccessControlExample.sol">>,
      test |-> <<"test", "advanced", "AccessControlExample.ts">>,
      description |-> "Complete guide to FHE permission system: allowThis, allow, and allowTransient.",
      category |-> "Advanced"],
     [name |-> "literature-review", contract |-> <<"contracts", "LiteratureReviewSystem.sol">>,
      test |-> <<"test", "LiteratureReviewSystem.ts">>,
      description |-> "A confidential literature awards platform using FHE to enable encrypted submissions, reviews, and winner selection.",
      category |-> "Advanced"],
     [name |-> "common-mistakes", contract |-> <<"contracts", "antipatterns", "CommonMistakes.sol">>,
      test |-> <<"test", "antipatterns", "CommonMistakes.ts">>,
      description |-> "Educational examples showing common mistakes and anti-patterns to avoid.",
      category |-> "Education"],
     [name |-> "handles-and-proofs", contract |-> <<"contracts", "education", "HandlesAndProofs.sol">>,
      test |-> <<"test", "education", "HandlesAndProofs.ts">>,
      description |-> "Complete explanation of FHE handles, input proofs, and symbolic execution.",
      category |-> "Education"],
     [name |-> "user-decrypt-multiple", contract |-> <<"contracts", "decryption", "UserDecryptMultipleValues.sol">>,
      test |-> <<"test", "decryption", "UserDecryptMultipleValues.ts">>,
      description |-> "User decryption mechanism for multiple encrypted values.",
      category |-> "Decryption"],
     [name |-> "public-decrypt-multiple", contract |-> <<"contracts", "decryption", "PublicDecryptMultipleValues.sol">>,
      test |-> <<"test", "decryption", "PublicDecryptMultipleValues.ts">>,
      description |-> "Public decryption for multiple encrypted values.",
      category |-> "Decryption"],
     [name |-> "confidential-erc20", contract |-> <<"contracts", "openzeppelin", "ConfidentialERC20.sol">>,
      test |-> <<"test", "openzeppelin", "ConfidentialERC20.ts">>,
      description |-> "Confidential ERC20 token with encrypted balances and transfers.",
      category |-> "OpenZeppelin"] >>

\* generate-docs.ts, EXAMPLES_CONFIG, in declaration order.
EXAMPLES_CONFIG ==
  << [name |-> "fhe-add", title |-> "FHE Addition Operations",
      description |-> "This example demonstrates how to perform addition on encrypted values using FHE.add().",
      contract |-> <<"contracts", "basic", "FHEAdd.sol">>,
      test |-> <<"test", "basic", "FHEAdd.ts">>,
      output |-> <<"docs", "fhe-add.md">>, category |-> "Basic"],
     [name |-> "fhe-subtract", title |-> "FHE Subtraction Operations",
      description |-> "This example shows how to perform subtraction on encrypted values with underflow considerations.",
      contract |-> <<"contracts", "basic", "FHESubtract.sol">>,
      test |-> <<"test", "basic", "FHESubtract.ts">>,
      output |-> <<"docs", "fhe-subtract.md">>, category |-> "Basic"],
     [name |-> "fhe-equality", title |-> "FHE Equality Comparisons",
      description |-> "This example demonstrates how to compare encrypted values for equality using FHE.eq().",
      contract |-> <<"contracts", "basic", "FHEEquality.sol">>,
      test |-> <<"test", "basic", "FHEEquality.ts">>,
      output |-> <<"docs", "fhe-equality.md">>, category |-> "Basic"],
     [name |-> "encrypt-single", title |-> "Encrypt Single Value",
      description |-> "This example demonstrates the FHE encryption mechanism for single values and common pitfalls.",
      contract |-> <<"contracts", "encryption", "EncryptSingleValue.sol">>,
      test |-> <<"test", "encryption", "EncryptSingleValue.ts">>,
      output |-> <<"docs", "encrypt-single.md">>, category |-> "Encryption"],
     [name |-> "encrypt-multiple", title |-> "Encrypt Multiple Values",
      description |-> "This example shows how to encrypt and handle multiple values in a single transaction.",
      contract |-> <<"contracts", "encryption", "EncryptMultipleValues.sol">>,
      test |-> <<"test", "encryption", "EncryptMultipleValues.ts">>,
      output |-> <<"docs", "encrypt-multiple.md">>, category |-> "Encryption"],
     [name |-> "user-decrypt", title |-> "User Decryption",
      description |-> "This example demonstrates the user decryption mechanism and permission requirements.",
      contract |-> <<"contracts", "decryption", "UserDecryptSingleValue.sol">>,
      test |-> <<"test", "decryption", "UserDecryptSingleValue.ts">>,
      output |-> <<"docs", "user-decrypt.md">>, category |-> "Decryption"],
     [name |-> "public-decrypt", title |-> "Public Decryption",
      description |-> "This example shows public decryption for revealing encrypted values to everyone.",
      contract |-> <<"contracts", "decryption", "PublicDecryptSingleValue.sol">>,
      test |-> <<"test", "decryption", "PublicDecryptSingleValue.ts">>,
      output |-> <<"docs", "public-decrypt.md">>, category |-> "Decryption"],
     [name |-> "blind-auction", title |-> "Blind Auction",
      description |-> "This example demonstrates a sealed-bid auction where bids remain encrypted during the bidding phase.",
      contract |-> <<"contracts", "advanced", "BlindAuction.sol">>,
      test |-> <<"test", "advanced", "BlindAuction.ts">>,
      output |-> <<"docs", "blind-auction.md">>, category |-> "Advanced"],
     [name |-> "access-control", title |-> "Access Control with FHE",
      description |-> "This example provides a complete guide to FHEVM permission system: allowThis, allow, and allowTransient.",
      contract |-> <<"contracts", "advanced", "AccessControlExample.sol">>,
      test |-> <<"test", "advanced", "AccessControlExample.ts">>,
      output |-> <<"docs", "access-control.md">>, category |-> "Advanced"],
     [name |-> "literature-review", title |-> "Literature Review System",
      description |-> "This example demonstrates how to build a confidential literature awards platform using FHE, enabling encrypted submissions, confidential reviews, and fair winner selection.",
      contract |-> <<"contracts", "LiteratureReviewSystem.sol">>,
      test |-> <<"test", "LiteratureReviewSystem.ts">>,
      output |-> <<"docs", "literature-review.md">>, category |-> "Advanced"],
     [name |-> "common-mistakes", title |-> "Common Mistakes and Anti-Patterns",
      description |-> "This educational example shows common mistakes developers make when working with FHEVM and how to avoid them.",
      contract |-> <<"contracts", "antipatterns", "CommonMistakes.sol">>,
      test |-> <<"test", "antipatterns", "CommonMistakes.ts">>,
      output |-> <<"docs", "common-mistakes.md">>, category |-> "Education"],
     [name |-> "handles-and-proofs", title |-> "Handles, Input Proofs, and Symbolic Execution",
      description |-> "This guide explains how FHE handles work, what input proofs validate, and how symbolic execution ensures correctness.",
      contract |-> <<"contracts", "education", "HandlesAndProofs.sol">>,
      test |-> <<"test", "education", "HandlesAndProofs.ts">>,
      output |-> <<"docs", "handles-and-proofs.md">>, category |-> "Education"],
     [name |-> "user-decrypt-multiple", title |-> "User Decrypt Multiple Values",
      description |-> "This example demonstrates how users can decrypt multiple encrypted values with proper permission management.",
      contract |-> <<"contracts", "decryption", "UserDecryptMultipleValues.sol">>,
      test |-> <<"test", "decryption", "UserDecryptMultipleValues.ts">>,
      output |-> <<"docs", "user-decrypt-multiple.md">>, category |-> "Decryption"],
     [name |-> "public-decrypt-multiple", title |-> "Public Decrypt Multiple Values",
      description |-> "This example shows public decryption for multiple values, useful for leaderboards and results.",
      contract |-> <<"contracts", "decryption", "PublicDecryptMultipleValues.sol">>,
      test |-> <<"test", "decryption", "PublicDecryptMultipleValues.ts">>,
      output |-> <<"docs", "public-decrypt-multiple.md">>, category |-> "Decryption"],
     [name |-> "confidential-erc20", title |-> "Confidential ERC20 Token",
      description |-> "This example demonstrates a confidential ERC20 token with encrypted balances and transfers, inspired by OpenZeppelin.",
      contract |-> <<"contracts", "openzeppelin", "ConfidentialERC20.sol">>,
      test |-> <<"test", "openzeppelin", "ConfidentialERC20.ts">>,
      output |-> <<"docs", "confidential-erc20.md">>, category |-> "OpenZeppelin"] >>

\* Object.keys(map): the own keys, in declaration order.
ObjectKeys(map) == [i \in 1..Len(map) |-> map[i].name]

OwnNames(map) == {map[i].name : i \in 1..Len(map)}

\* Property names every object literal inherits from Object.prototype; the
\* value found under each is truthy and has none of the descriptor's fields.
ProtoKeys == {"constructor", "toString"}

\* map[name] is truthy: an own entry or an inherited member.
Truthy(map, name) == name \in OwnNames(map) \/ name \in ProtoKeys

\* map[name] of an own entry.
Entry(map, name) == map[CHOOSE i \in 1..Len(map) : map[i].name = name]


-----------------------------------------------------------------------------
(* File system: the calls of Node's fs and path modules the scripts make *)

Root == << >>

Dir == [kind |-> "dir", data |-> << >>]

File(data) == [kind |-> "file", data |-> data]

Parent(p) == SubSeq(p, 1, Len(p) - 1)

\* path.basename
Basename(p) == p[Len(p)]

\* path.join of two relative paths
PathJoin(a, b) == a \o b

\* fs.existsSync
Exists(f, p) == p = Root \/ p \in DOMAIN f

IsDir(f, p) == p = Root \/ (p \in DOMAIN f /\ f[p].kind = "dir")

IsFile(f, p) == p \in DOMAIN f /\ f[p].kind = "file"

Prefixes(p) == {SubSeq(p, 1, k) : k \in 1..Len(p)}

Put(f, p, node) == [q \in (DOMAIN f) \cup {p} |-> IF q = p THEN node ELSE f[q]]

\* mkdir without the recursive option: also fails on an existing directory.
MkdirPlain(f, p) ==
    IF Exists(f, p) \/ \E q \in Prefixes(p) : IsFile(f, q)
    THEN [ok |-> FALSE, fs |-> f]
    ELSE [ok |-> TRUE,
          fs |-> [q \in (DOMAIN f) \cup Prefixes(p) |->
                     IF q \in DOMAIN f THEN f[q] ELSE Dir]]

\* fs.mkdirSync(p, { recursive: true }): creates p and its missing ancestors,
\* succeeds on an existing directory, throws when a component is a file.
MkdirRecursive(f, p) ==
    IF \E q \in Prefixes(p) : IsFile(f, q)
    THEN [ok |-> FALSE, fs |-> f]
    ELSE [ok |-> TRUE,
          fs |-> [q \in (DOMAIN f) \cup Prefixes(p) |->
                     IF q \in DOMAIN f THEN f[q] ELSE Dir]]

\* A write with the "wx" flag: also fails when the file exists.
WriteFileExclusive(f, p, data) ==
    IF IsDir(f, Parent(p)) /\ ~Exists(f, p)
    THEN [ok |-> TRUE, fs |-> Put(f, p, File(data))]
    ELSE [ok |-> FALSE, fs |-> f]

\* fs.writeFileSync(p, data): creates or replaces the file; throws when the
\* parent is no directory (ENOENT, ENOTDIR) or p is a directory (EISDIR).
WriteFile(f, p, data) ==
    IF IsDir(f, Parent(p)) /\ ~IsDir(f, p)
    THEN [ok |-> TRUE, fs |-> Put(f, p, File(data))]
    ELSE [ok |-> FALSE, fs |-> f]

\* A copy that creates the destination but leaves it empty.
CopyFileTruncating(f, src, dst) ==
    IF IsFile(f, src)
    THEN WriteFile(f, dst, << >>)
    ELSE [ok |-> FALSE, fs |-> f]

\* fs.copyFileSync(src, dst): dst receives the bytes of src.
CopyFile(f, src, dst) ==
    IF IsFile(f, src)
    THEN WriteFile(f, dst, f[src].data)
    ELSE [ok |-> FALSE, fs |-> f]

-----------------------------------------------------------------------------
(* Console output *)

\* A listing that stops one name short.
UsageLinesShort(map) ==
    << <<"Available examples:">> >> \o
    [i \in 1..(Len(map) - 1) |-> <<"  - ", ObjectKeys(map)[i]>>]

\* Object.keys(map).forEach((name) => log("  - " + name)) after the heading.
UsageLines(map) ==
    << <<"Available examples:">> >> \o
    [i \in 1..Len(map) |-> <<"  - ", ObjectKeys(map)[i]>>]

\* error(message): the line it prints before process.exit(1).
ErrorLine(msg) == <<"Error: ">> \o msg

-----------------------------------------------------------------------------
(* Standalone generator: generated contents *)

\* generateReadme: the template, with the interpolated values in place.
generateReadme(name, cfg) ==
    << <<"# ", name, "(each - replaced by a space)", " - FHEVM Example">>,
       <<cfg.description>>,
       <<"## Quick Start">>,
       <<"## Project Structure">>,
       <<"contracts/">>, <<"    ", Basename(cfg.contract)>>,
       <<"test/">>, <<"    ", Basename(cfg.test)>>,
       <<"hardhat.config.ts">>, <<"package.json">>, <<"tsconfig.json">>,
       <<"## Key Concepts">>,
       <<"## Dependencies">>,
       <<"## Resources">>,
       <<"## License">>,
       <<"Built with FHEVM by Zama">> >>

\* A manifest that also records how many invocations ended before this one.
generatePackageJsonStamped(name) ==
    << <<"name", "fhevm-example-", name>>,
       <<"version", "1.0.0">>,
       <<"description", "FHEVM Example: ", name>>,
       <<"license", "BSD-3-Clause-Clear">>,
       <<"dependencies", "@fhevm/solidity", "^0.9.1">>,
       <<"devDependencies", "@fhevm/hardhat-plugin", "^0.3.0-1">>,
       <<"scripts", "compile", "test">>,
       <<"generated",
         ToString(Cardinality({q \in Proc : pc[q] \in {"exited", "killed"}}))>> >>

\* generatePackageJson: JSON.stringify(packageJson, null, 2).
generatePackageJson(name) ==
    << <<"name", "fhevm-example-", name>>,
       <<"version", "1.0.0">>,
       <<"description", "FHEVM Example: ", name>>,
       <<"license", "BSD-3-Clause-Clear">>,
       <<"dependencies", "@fhevm/solidity", "^0.9.1">>,
       <<"devDependencies", "@fhevm/hardhat-plugin", "^0.3.0-1">>,
       <<"scripts", "compile", "test">> >>

\* generateHardhatConfig: a literal.
generateHardhatConfig ==
    << <<"import @fhevm/hardhat-plugin">>,
       <<"defaultNetwork", "hardhat">>,
       <<"solidity", "0.8.27">>,
       <<"export default config">> >>

\* generateTsConfig: JSON.stringify(tsConfig, null, 2).
generateTsConfig ==
    << <<"compilerOptions", "target", "ES2022">>,
       <<"include", "./test", "./types">>,
       <<"exclude", "./node_modules", "./dist", "./cache", "./artifacts", "./coverage">> >>

-----------------------------------------------------------------------------
(* Standalone generator: the steps of main *)

\* const exampleName = args[0]
ExampleName(args) == args[1]

\* const outputDir = args[1] || `./${exampleName}`
OutputDir(args) == IF Len(args) >= 2 THEN args[2] ELSE <<args[1]>>

\* What one step leaves: the file system, the next position, the exit status
\* (-1: still running), the lines printed and the destinations written.
Res(f, pos, st, lines, ws) ==
    [fs |-> f, pc |-> pos, status |-> st, out |-> lines, writes |-> ws]

\* catch (err) { error(`Failed to create example: ...`) }
Caught(f, ws) ==
    Res(f, "exited", 1, << ErrorLine(<<"Failed to create example">>) >>, ws)

\* main up to the try block: the usage and unknown-example exits.
StepStart(f, args) ==
    IF Len(args) = 0
    THEN Res(f, "exited", 1,
             UsageLines(EXAMPLES_MAP) \o
                 << ErrorLine(<<"Please specify an example name">>) >>,
             << >>)
    ELSE IF ~Truthy(EXAMPLES_MAP, ExampleName(args))
    THEN Res(f, "exited", 1,
             << ErrorLine(<<"Unknown example: ", ExampleName(args)>>) >>, << >>)
    ELSE Res(f, "mkdir_contracts", -1,
             << <<"Creating example: ", ExampleName(args)>>,
                <<"Output directory: ">> \o OutputDir(args) >>, << >>)

\* fs.mkdirSync(path.join(outputDir, "contracts"), { recursive: true })
StepMkdirContracts(f, args) ==
    LET r == MkdirRecursive(f, PathJoin(OutputDir(args), <<"contracts">>))
    IN  IF r.ok THEN Res(r.fs, "mkdir_test", -1, << >>, << >>)
        ELSE Caught(f, << >>)

\* fs.mkdirSync(path.join(outputDir, "test"), { recursive: true })
StepMkdirTest(f, args) ==
    LET r == MkdirRecursive(f, PathJoin(OutputDir(args), <<"test">>))
    IN  IF r.ok THEN Res(r.fs, "check_contract", -1, << >>, << >>)
        ELSE Caught(f, << >>)

\* path.join(process.cwd(), exampleConfig.contract) and the existsSync test;
\* path.join throws on the undefined field of an inherited member.
StepCheckContract(f, args) ==
    IF ExampleName(args) \notin OwnNames(EXAMPLES_MAP)
    THEN Caught(f, << >>)
    ELSE LET src == Entry(EXAMPLES_MAP, ExampleName(args)).contract
         IN  IF ~Exists(f, src)
             THEN Res(f, "exited", 1,
                      << ErrorLine(<<"Contract file not found: ">> \o src) >>, << >>)
             ELSE Res(f, "copy_contract", -1, << >>, << >>)

\* fs.copyFileSync(contractPath, outputDir/contracts/<basename>)
StepCopyContract(f, args) ==
    LET src == Entry(EXAMPLES_MAP, ExampleName(args)).contract
        dst == PathJoin(OutputDir(args), <<"contracts", Basename(src)>>)
        r   == CopyFile(f, src, dst)
    IN  IF r.ok THEN Res(r.fs, "check_test", -1, << >>, <<dst>>)
        ELSE Caught(f, <<dst>>)

\* path.join(process.cwd(), exampleConfig.test) and the existsSync test
StepCheckTest(f, args) ==
    LET src == Entry(EXAMPLES_MAP, ExampleName(args)).test
    IN  IF ~Exists(f, src)
        THEN Res(f, "exited", 1,
                 << ErrorLine(<<"Test file not found: ">> \o src) >>, << >>)
        ELSE Res(f, "copy_test", -1, << >>, << >>)

\* fs.copyFileSync(testPath, outputDir/test/<basename>)
StepCopyTest(f, args) ==
    LET src == Entry(EXAMPLES_MAP, ExampleName(args)).test
        dst == PathJoin(OutputDir(args), <<"test", Basename(src)>>)
        r   == CopyFile(f, src, dst)
    IN  IF r.ok THEN Res(r.fs, "readme", -1, << >>, <<dst>>)
        ELSE Caught(f, <<dst>>)

\* generateReadme(exampleName, exampleConfig, outputDir)
StepReadme(f, args) ==
    LET dst == PathJoin(OutputDir(args), <<"README.md">>)
        r   == WriteFile(f, dst, generateReadme(ExampleName(args),
                                        Entry(EXAMPLES_MAP, ExampleName(args))))
    IN  IF r.ok THEN Res(r.fs, "package_json", -1, << >>, <<dst>>)
        ELSE Caught(f, <<dst>>)

\* generatePackageJson(exampleName, outputDir)
StepPackageJson(f, args) ==
    LET dst == PathJoin(OutputDir(args), <<"package.json">>)
        r   == WriteFile(f, dst, generatePackageJson(ExampleName(args)))
    IN  IF r.ok THEN Res(r.fs, "hardhat_config", -1, << >>, <<dst>>)
        ELSE Caught(f, <<dst>>)

\* generateHardhatConfig(outputDir)
StepHardhatConfig(f, args) ==
    LET dst == PathJoin(OutputDir(args), <<"hardhat.config.ts">>)
        r   == WriteFile(f, dst, generateHardhatConfig)
    IN  IF r.ok THEN Res(r.fs, "ts_config", -1, << >>, <<dst>>)
        ELSE Caught(f, <<dst>>)

\* generateTsConfig(outputDir), then the closing messages and the exit with 0
StepTsConfig(f, args) ==
    LET dst == PathJoin(OutputDir(args), <<"tsconfig.json">>)
        r   == WriteFile(f, dst, generateTsConfig)
    IN  IF r.ok
        THEN Res(r.fs, "exited", 0,
                 << <<"Example created successfully!">>, <<"Next steps:">> >>, <<dst>>)
        ELSE Caught(f, <<dst>>)

CreatePositions ==
    {"start", "mkdir_contracts", "mkdir_test", "check_contract", "copy_contract",
     "check_test", "copy_test", "readme", "package_json", "hardhat_config",
     "ts_config"}

\* The step main takes at a position.
CreateStep(pos, f, args) ==
    CASE pos = "start"           -> StepStart(f, args)
      [] pos = "mkdir_contracts" -> StepMkdirContracts(f, args)
      [] pos = "mkdir_test"      -> StepMkdirTest(f, args)
      [] pos = "check_contract"  -> StepCheckContract(f, args)
      [] pos = "copy_contract"   -> StepCopyContract(f, args)
      [] pos = "check_test"      -> StepCheckTest(f, args)
      [] pos = "copy_test"       -> StepCopyTest(f, args)
      [] pos = "readme"          -> StepReadme(f, args)
      [] pos = "package_json"    -> StepPackageJson(f, args)
      [] pos = "hardhat_config"  -> StepHardhatConfig(f, args)
      [] pos = "ts_config"       -> StepTsConfig(f, args)

\* One whole, uninterrupted invocation of main from a position: the file
\* system it leaves.
RECURSIVE RunCreate(_, _, _)
RunCreate(pos, f, args) ==
    IF pos = "exited" THEN f
    ELSE LET r == CreateStep(pos, f, args) IN RunCreate(r.pc, r.fs, args)

-----------------------------------------------------------------------------
(* Documentation generator: generated contents and the steps of main *)

\* readFileContent: the text, or the placeholder when the read throws.
readFileContent(f, p) ==
    IF IsFile(f, p) THEN f[p].data ELSE << <<"File not found: ">> \o p >>

\* generateDocumentation: the sections in the order the code appends them.
generateDocumentation(f, cfg) ==
    << <<"# ", cfg.title>>,
       <<"**Category:** ", cfg.category>>,
       <<"## Overview">>,
       <<cfg.description>>,
       <<"## Key Concepts">>,
       <<"## Smart Contract">>,
       <<"(code fence) solidity">> >>
    \o readFileContent(f, cfg.contract) \o
    << <<"(code fence)">>,
       <<"## Test Examples">>,
       <<"(code fence) typescript">> >>
    \o readFileContent(f, cfg.test) \o
    << <<"(code fence)">>,
       <<"## Critical Patterns">>,
       <<"## Running the Example">>,
       <<"## Common Pitfalls">>,
       <<"## Resources">>,
       <<"## License">>,
       <<"Built with FHEVM by Zama">> >>

\* config.output.replace("docs/", "").replace(".md", "") + ".md": the path
\* without its leading docs component.
DocLink(output) == IF output[1] = "docs" THEN Tail(output) ELSE output

\* generateSummary: the text written to SUMMARY.md, one bullet per name that
\* has a configuration.
SummaryBullet(cfg) == <<"- [", cfg.title, "](">> \o DocLink(cfg.output) \o <<")">>

generateSummary(examples) ==
    << <<"# FHEVM Examples Documentation">>, <<"## Table of Contents">> >>
    \o [i \in 1..Len(examples) |-> SummaryBullet(Entry(EXAMPLES_CONFIG, examples[i]))]
    \o << <<"## Overview">> >>

\* const outputDir = "docs"
DocsOutputDir == <<"docs">>

\* path.join(outputDir, config.output): where a document is written.
DocPath(cfg) == PathJoin(DocsOutputDir, cfg.output)

\* An exception nothing catches: the process ends with status 1, after the
\* lines printed before the throw.
Uncaught(f, lines, ws) == Res(f, "exited", 1, lines, ws)

\* main up to the mode test: the usage exit, then the docs directory.
DocsStepStart(f, args) ==
    IF Len(args) = 0
    THEN Res(f, "exited", 1,
             UsageLines(EXAMPLES_CONFIG) \o
                 << ErrorLine(<<"Please specify an example name or use --all">>) >>,
             << >>)
    ELSE IF ~Exists(f, DocsOutputDir)
    THEN Res(MkdirRecursive(f, DocsOutputDir).fs, "dispatch", -1, << >>, << >>)
    ELSE Res(f, "dispatch", -1, << >>, << >>)

\* if (exampleName === "--all") ... else { if (!EXAMPLES_CONFIG[exampleName]) error }
DocsStepDispatch(f, args) ==
    IF ExampleName(args) = "--all"
    THEN Res(f, "all_loop", -1,
             << <<"Generating documentation for all examples...">> >>, << >>)
    ELSE IF ~Truthy(EXAMPLES_CONFIG, ExampleName(args))
    THEN Res(f, "exited", 1,
             << ErrorLine(<<"Unknown example: ", ExampleName(args)>>) >>, << >>)
    ELSE Res(f, "single", -1,
             << <<"Generating documentation for ", ExampleName(args)>> >>, << >>)

\* Single-example mode: generate, write, report.  On an inherited member
\* path.join throws on the undefined output field.
DocsStepSingle(f, args) ==
    IF ExampleName(args) \notin OwnNames(EXAMPLES_CONFIG)
    THEN Uncaught(f, << >>, << >>)
    ELSE LET cfg == Entry(EXAMPLES_CONFIG, ExampleName(args))
             r   == WriteFile(f, DocPath(cfg), generateDocumentation(f, cfg))
         IN  IF r.ok
             THEN Res(r.fs, "exited", 0,
                      << <<"Documentation generated: ">> \o DocPath(cfg),
                         <<"Documentation generation completed!">> >>,
                      <<DocPath(cfg)>>)
             ELSE Uncaught(f, << >>, <<DocPath(cfg)>>)

\* One turn of Object.entries(EXAMPLES_CONFIG).forEach in --all mode.
DocsStepGenerate(f, i) ==
    LET cfg == EXAMPLES_CONFIG[i]
        r   == WriteFile(f, DocPath(cfg), generateDocumentation(f, cfg))
    IN  IF r.ok
        THEN Res(r.fs, "all_loop", -1,
                 << <<"Generating ", cfg.name>>, <<"Generated ">> \o cfg.output >>,
                 <<DocPath(cfg)>>)
        ELSE Uncaught(f, << <<"Generating ", cfg.name>> >>, <<DocPath(cfg)>>)

\* generateSummary(Object.keys(EXAMPLES_CONFIG), outputDir), then the exit with 0
DocsStepSummary(f) ==
    LET dst == PathJoin(DocsOutputDir, <<"SUMMARY.md">>)
        r   == WriteFile(f, dst, generateSummary(ObjectKeys(EXAMPLES_CONFIG)))
    IN  IF r.ok
        THEN Res(r.fs, "exited", 0,
                 << <<"Documentation generation completed!">> >>, <<dst>>)
        ELSE Uncaught(f, << >>, <<dst>>)

-----------------------------------------------------------------------------
(* The example contracts.  The FHE library keeps, for every ciphertext      *)
(* handle, the value it encrypts and the addresses allowed to use it; every *)
(* operation of the library returns a handle never returned before.         *)

\* address(0)
ZeroAddress == "0x0"

\* The externally owned accounts that send transactions.
Users == {"deployer", "alice"}

Address == Users \cup {ZeroAddress}

\* address(this)
This == "this"

\* The number of values of an euint32, scaled down from 2^32.
EuintModulus == 2

\* Largest _initialSupply the token is deployed with.
MaxInitialSupply == 3

\* Number of transactions sent to a deployed contract.
MaxCalls == 2

\* The plaintexts a user can submit as an encrypted 32-bit input.
Uint32 == 0..(EuintModulus - 1)

\* The handle of a storage slot that was never assigned.
Uninitialized == 0

\* The storage while no contract is deployed.
NotDeployed == "not deployed"

\* No transaction was sent.
NoCall == [contract |-> "none", fn |-> "none", ok |-> FALSE, n |-> 0]

\* The library's state before any operation.
FHE_empty == [val |-> << >>, acl |-> {}]

\* What a handle decrypts to; the library reads an uninitialized handle as 0.
Decrypt(f, h) == IF h = Uninitialized THEN 0 ELSE f.val[h]

\* The handle of a new ciphertext of value v.
NewHandle(f, v) == [h |-> Len(f.val) + 1, fhe |-> [f EXCEPT !.val = Append(@, v)]]

FHE_asEuint32(f, v) == NewHandle(f, v % EuintModulus)

FHE_fromExternal(f, v) == NewHandle(f, v % EuintModulus)

FHE_add(f, a, b) == NewHandle(f, (Decrypt(f, a) + Decrypt(f, b)) % EuintModulus)

\* A subtraction that stops at 0 instead of wrapping around.
FHE_subSaturating(f, a, b) ==
    NewHandle(f, IF Decrypt(f, a) >= Decrypt(f, b) THEN Decrypt(f, a) - Decrypt(f, b) ELSE 0)

FHE_sub(f, a, b) ==
    NewHandle(f, (Decrypt(f, a) - Decrypt(f, b) + EuintModulus) % EuintModulus)

FHE_allow(f, h, who) == [f EXCEPT !.acl = @ \cup {<<h, who>>}]

FHE_allowThis(f, h) == FHE_allow(f, h, This)

\* Who may decrypt the ciphertext behind a handle.
IsAllowed(f, h, who) == <<h, who>> \in f.acl

\* A require failed: the transaction changes nothing.
Reverted(f, st) == [ok |-> FALSE, fhe |-> f, st |-> st]

\* The transaction returned normally.
Done(f, st) == [ok |-> TRUE, fhe |-> f, st |-> st]

\* ConfidentialERC20 ---------------------------------------------------------

\* constructor(_name, _symbol, _initialSupply), sent by deployer.
TokenConstructor(deployer, initialSupply) ==
    LET enc == FHE_asEuint32(FHE_empty, initialSupply)
        f1 == FHE_allowThis(enc.fhe, enc.h)
        f2 == FHE_allow(f1, enc.h, deployer)
    IN  Done(f2, [owner |-> deployer,
                       totalSupply |-> initialSupply,
                       balances |-> [a \in Address |->
                                        IF a = deployer THEN enc.h ELSE Uninitialized],
                       allowances |-> [p \in Address \X Address |-> Uninitialized]])

\* A transfer that leaves the sender's balance as it was.
transferWithoutDebit(f, t, sender, to, a) ==
    IF to = ZeroAddress
    THEN Reverted(f, t)
    ELSE LET amount == FHE_fromExternal(f, a)
             sum == FHE_add(amount.fhe, t.balances[to], amount.h)
             b2 == [t.balances EXCEPT ![to] = sum.h]
             f1 == FHE_allowThis(sum.fhe, b2[to])
             f2 == FHE_allow(f1, b2[to], to)
         IN  Done(f2, [t EXCEPT !.balances = b2])

\* transfer(to, encryptedAmount, inputProof) sent by sender; a is the
\* plaintext of encryptedAmount.
transfer(f, t, sender, to, a) ==
    IF to = ZeroAddress
    THEN Reverted(f, t)
    ELSE LET amount == FHE_fromExternal(f, a)
             diff == FHE_sub(amount.fhe, t.balances[sender], amount.h)
             b1 == [t.balances EXCEPT ![sender] = diff.h]
             sum == FHE_add(diff.fhe, b1[to], amount.h)
             b2 == [b1 EXCEPT ![to] = sum.h]
             f1 == FHE_allowThis(sum.fhe, b2[sender])
             f2 == FHE_allow(f1, b2[sender], sender)
             f3 == FHE_allowThis(f2, b2[to])
             f4 == FHE_allow(f3, b2[to], to)
         IN  Done(f4, [t EXCEPT !.balances = b2])

\* approve(spender, encryptedAmount, inputProof) sent by sender.
approve(f, t, sender, spender, a) ==
    IF spender = ZeroAddress
    THEN Reverted(f, t)
    ELSE LET amount == FHE_fromExternal(f, a)
             f1 == FHE_allowThis(amount.fhe, amount.h)
             f2 == FHE_allow(f1, amount.h, sender)
             f3 == FHE_allow(f2, amount.h, spender)
         IN  Done(f3, [t EXCEPT !.allowances[<<sender, spender>>] = amount.h])

\* A transferFrom that also lets the spender use the owner's new balance.
transferFromExposing(f, t, sender, from, to, a) ==
    IF from = ZeroAddress \/ to = ZeroAddress
    THEN Reverted(f, t)
    ELSE LET amount == FHE_fromExternal(f, a)
             left == FHE_sub(amount.fhe, t.allowances[<<from, sender>>], amount.h)
             diff == FHE_sub(left.fhe, t.balances[from], amount.h)
             b1 == [t.balances EXCEPT ![from] = diff.h]
             sum == FHE_add(diff.fhe, b1[to], amount.h)
             b2 == [b1 EXCEPT ![to] = sum.h]
             f1 == FHE_allowThis(sum.fhe, left.h)
             f2 == FHE_allow(f1, left.h, from)
             f3 == FHE_allow(f2, left.h, sender)
             f4 == FHE_allowThis(f3, b2[from])
             f5 == FHE_allow(FHE_allow(f4, b2[from], from), b2[from], sender)
             f6 == FHE_allowThis(f5, b2[to])
             f7 == FHE_allow(f6, b2[to], to)
         IN  Done(f7, [t EXCEPT !.balances = b2,
                                     !.allowances[<<from, sender>>] = left.h])

\* transferFrom(from, to, encryptedAmount, inputProof) sent by sender.
transferFrom(f, t, sender, from, to, a) ==
    IF from = ZeroAddress \/ to = ZeroAddress
    THEN Reverted(f, t)
    ELSE LET amount == FHE_fromExternal(f, a)
             left == FHE_sub(amount.fhe, t.allowances[<<from, sender>>], amount.h)
             diff == FHE_sub(left.fhe, t.balances[from], amount.h)
             b1 == [t.balances EXCEPT ![from] = diff.h]
             sum == FHE_add(diff.fhe, b1[to], amount.h)
             b2 == [b1 EXCEPT ![to] = sum.h]
             f1 == FHE_allowThis(sum.fhe, left.h)
             f2 == FHE_allow(f1, left.h, from)
             f3 == FHE_allow(f2, left.h, sender)
             f4 == FHE_allowThis(f3, b2[from])
             f5 == FHE_allow(f4, b2[from], from)
             f6 == FHE_allowThis(f5, b2[to])
             f7 == FHE_allow(f6, b2[to], to)
         IN  Done(f7, [t EXCEPT !.balances = b2,
                                     !.allowances[<<from, sender>>] = left.h])

\* A mint that any address may send.
mintByAnyone(f, t, sender, to, amount) ==
    IF to = ZeroAddress
    THEN Reverted(f, t)
    ELSE LET enc == FHE_asEuint32(f, amount)
             sum == FHE_add(enc.fhe, t.balances[to], enc.h)
             b1 == [t.balances EXCEPT ![to] = sum.h]
             f1 == FHE_allowThis(sum.fhe, b1[to])
             f2 == FHE_allow(f1, b1[to], to)
         IN  Done(f2, [t EXCEPT !.totalSupply = @ + amount, !.balances = b1])

\* mint(to, amount) sent by sender.
mint(f, t, sender, to, amount) ==
    IF sender # t.owner \/ to = ZeroAddress
    THEN Reverted(f, t)
    ELSE LET enc == FHE_asEuint32(f, amount)
             sum == FHE_add(enc.fhe, t.balances[to], enc.h)
             b1 == [t.balances EXCEPT ![to] = sum.h]
             f1 == FHE_allowThis(sum.fhe, b1[to])
             f2 == FHE_allow(f1, b1[to], to)
         IN  Done(f2, [t EXCEPT !.totalSupply = @ + amount, !.balances = b1])

\* BlindAuction ----------------------------------------------------------------

\* Longest _biddingTime the auction is deployed with, in blocks.
MaxBiddingTime == 1

\* Number of transactions sent to the auction.
MaxAuctionCalls == 3

\* constructor(_biddingTime), sent by deployer at block.timestamp now.
AuctionConstructor(deployer, now, biddingTime) ==
    [owner |-> deployer,
     auctionEndTime |-> now + biddingTime,
     ended |-> FALSE,
     bids |-> [a \in Address |-> Uninitialized],
     hasBid |-> [a \in Address |-> FALSE],
     highestBid |-> 0,
     highestBidder |-> ZeroAddress,
     now |-> now]

\* A placeBid that does not look at the block time.
placeBidLate(f, au, sender, v) ==
    IF au.hasBid[sender]
    THEN Reverted(f, au)
    ELSE LET bid == FHE_fromExternal(f, v)
             f1 == FHE_allowThis(bid.fhe, bid.h)
             f2 == FHE_allow(f1, bid.h, sender)
         IN  Done(f2, [au EXCEPT !.bids[sender] = bid.h,
                                        !.hasBid[sender] = TRUE])

\* placeBid(encryptedBid, inputProof) sent by sender; v is the plaintext of
\* encryptedBid.
placeBid(f, au, sender, v) ==
    IF ~(au.now < au.auctionEndTime) \/ au.hasBid[sender]
    THEN Reverted(f, au)
    ELSE LET bid == FHE_fromExternal(f, v)
             f1 == FHE_allowThis(bid.fhe, bid.h)
             f2 == FHE_allow(f1, bid.h, sender)
         IN  Done(f2, [au EXCEPT !.bids[sender] = bid.h,
                                        !.hasBid[sender] = TRUE])

\* An endAuction that any address may send.
endAuctionByAnyone(f, au, sender) ==
    IF ~(au.now >= au.auctionEndTime) \/ au.ended
    THEN Reverted(f, au)
    ELSE Done(f, [au EXCEPT !.ended = TRUE])

\* endAuction() sent by sender.
endAuction(f, au, sender) ==
    IF ~(au.now >= au.auctionEndTime) \/ au.ended \/ sender # au.owner
    THEN Reverted(f, au)
    ELSE Done(f, [au EXCEPT !.ended = TRUE])

\* isMyBidHigher(other) called by sender: a view; value is what the returned
\* ebool decrypts to.
isMyBidHigher(f, au, sender, other) ==
    IF ~au.hasBid[sender] \/ ~au.hasBid[other]
    THEN [ok |-> FALSE, value |-> FALSE]
    ELSE [ok |-> TRUE,
          value |-> Decrypt(f, au.bids[sender]) > Decrypt(f, au.bids[other])]

\* PublicDecryptSingleValue ----------------------------------------------------

\* Number of transactions sent to the bid-revealing contract.
MaxRevealCalls == 3

\* The storage of the contract when it is deployed; it has no constructor.
RevealDeployed == [encryptedBid |-> Uninitialized, revealedBid |-> 0, isRevealed |-> FALSE]

\* submitBid(bid, proof) sent by sender; v is the plaintext of bid.
submitBid(f, rv, sender, v) ==
    IF rv.isRevealed
    THEN Reverted(f, rv)
    ELSE LET bid == FHE_fromExternal(f, v)
             f1 == FHE_allowThis(bid.fhe, bid.h)
             f2 == FHE_allow(f1, bid.h, sender)
         IN  Done(f2, [rv EXCEPT !.encryptedBid = bid.h])

\* revealBid() sent by sender.
revealBid(f, rv, sender) ==
    IF rv.isRevealed
    THEN Reverted(f, rv)
    ELSE Done(f, [rv EXCEPT !.isRevealed = TRUE])

\* decryptionCallback(plaintext) sent by sender.
decryptionCallback(f, rv, sender, plaintext) ==
    Done(f, [rv EXCEPT !.revealedBid = plaintext, !.isRevealed = TRUE])

\* getRevealedBid(): the value a caller reads, if the call does not revert.
getRevealedBid(rv) ==
    IF rv.isRevealed
    THEN [ok |-> TRUE, value |-> rv.revealedBid]
    ELSE [ok |-> FALSE, value |-> 0]

\* FHEAdd ----------------------------------------------------------------------

\* The storage of the contract when it is deployed; it has no constructor.
AdderDeployed == [encryptedSum |-> Uninitialized]

\* add(value1, value2, inputProof1, inputProof2) sent by sender; v1 and v2
\* are the plaintexts of the two inputs.
add(f, ad, sender, v1, v2) ==
    LET encValue1 == FHE_fromExternal(f, v1)
        encValue2 == FHE_fromExternal(encValue1.fhe, v2)
        sum == FHE_add(encValue2.fhe, encValue1.h, encValue2.h)
        f1 == FHE_allowThis(sum.fhe, sum.h)
        f2 == FHE_allow(f1, sum.h, sender)
    IN  Done(f2, [ad EXCEPT !.encryptedSum = sum.h])

\* addToSum(value, inputProof) sent by sender; v is the plaintext of value.
addToSum(f, ad, sender, v) ==
    LET encValue == FHE_fromExternal(f, v)
        sum == FHE_add(encValue.fhe, ad.encryptedSum, encValue.h)
        f1 == FHE_allowThis(sum.fhe, sum.h)
        f2 == FHE_allow(f1, sum.h, sender)
    IN  Done(f2, [ad EXCEPT !.encryptedSum = sum.h])

\* resetSum() sent by sender.
resetSum(f, ad, sender) ==
    LET zero == FHE_asEuint32(f, 0)
        f1 == FHE_allowThis(zero.fhe, zero.h)
    IN  Done(f1, [ad EXCEPT !.encryptedSum = zero.h])

\* PublicDecryptMultipleValues ------------------------------------------------

MaxCompetitions == 2

MaxResultsCalls == 2

\* The competition ids used as arguments.
Competitions == 1..MaxCompetitions

\* The storage of the contract when it is deployed; it has no constructor.
ResultsDeployed ==
    [scores |-> [c \in Competitions, u \in Users |-> Uninitialized],
     results |-> [c \in Competitions |->
                    [firstPlace |-> 0, secondPlace |-> 0, thirdPlace |-> 0,
                     revealed |-> FALSE]]]

\* submitScore(competitionId, score, proof) sent by sender; v is the
\* plaintext of score.
submitScore(f, rs, sender, competitionId, v) ==
    LET encScore == FHE_fromExternal(f, v)
        f1 == FHE_allowThis(encScore.fhe, encScore.h)
        f2 == FHE_allow(f1, encScore.h, sender)
    IN  Done(f2, [rs EXCEPT !.scores[competitionId, sender] = encScore.h])

\* revealTopThree(competitionId) sent by sender: only emits an event.
revealTopThree(f, rs, sender, competitionId) ==
    IF rs.results[competitionId].revealed
    THEN Reverted(f, rs)
    ELSE Done(f, rs)

\* setResults(competitionId, first, second, third) sent by sender.
setResults(f, rs, sender, competitionId, first, second, third) ==
    Done(f, [rs EXCEPT !.results[competitionId] =
                          [firstPlace |-> first, secondPlace |-> second,
                           thirdPlace |-> third, revealed |-> TRUE]])

\* revealWinnerOnly(competitionId, topScore) sent by sender.
revealWinnerOnly(f, rs, sender, competitionId, topScore) ==
    IF rs.results[competitionId].revealed
    THEN Reverted(f, rs)
    ELSE Done(f, [rs EXCEPT !.results[competitionId].firstPlace = topScore,
                            !.results[competitionId].revealed = TRUE])

\* AccessControlExample ---------------------------------------------------------

MaxAccessCalls == 2

\* constructor(), sent by deployer.
AccessConstructor(deployer) ==
    [owner |-> deployer,
     balances |-> [a \in Address |-> Uninitialized],
     sharedSecret |-> Uninitialized,
     hasAccess |-> [a \in Address |-> FALSE]]

\* demonstrateAllowThis(value, proof) sent by sender; v is the plaintext.
demonstrateAllowThis(f, ac, sender, v) ==
    LET encValue == FHE_fromExternal(f, v)
        f1 == FHE_allowThis(encValue.fhe, encValue.h)
    IN  Done(f1, [ac EXCEPT !.balances[sender] = encValue.h])

\* demonstrateAllow(value, proof) sent by sender; v is the plaintext.
demonstrateAllow(f, ac, sender, v) ==
    LET encValue == FHE_fromExternal(f, v)
        f1 == FHE_allowThis(encValue.fhe, encValue.h)
        f2 == FHE_allow(f1, encValue.h, sender)
    IN  Done(f2, [ac EXCEPT !.balances[sender] = encValue.h])

\* demonstrateAllowTransient(value1, value2, proof1, proof2) sent by sender:
\* the permission on the sum ends with the transaction, nothing is stored.
demonstrateAllowTransient(f, ac, sender, v1, v2) ==
    LET enc1 == FHE_fromExternal(f, v1)
        enc2 == FHE_fromExternal(enc1.fhe, v2)
        sum == FHE_add(enc2.fhe, enc1.h, enc2.h)
    IN  Done(sum.fhe, ac)

\* shareWithMultipleUsers(secret, proof, users) sent by sender; v is the
\* plaintext of secret and users the set of the array's elements.
shareWithMultipleUsers(f, ac, sender, v, users) ==
    IF sender # ac.owner
    THEN Reverted(f, ac)
    ELSE LET encSecret == FHE_fromExternal(f, v)
             f1 == FHE_allowThis(encSecret.fhe, encSecret.h)
             f2 == [f1 EXCEPT !.acl = @ \cup {<<encSecret.h, u>> : u \in users}]
         IN  Done(f2, [ac EXCEPT
                          !.hasAccess = [a \in Address |-> a \in users \/ @[a]],
                          !.sharedSecret = encSecret.h])

\* transferWithPermissions(to, amount, proof) sent by sender; v is the
\* plaintext of amount.
transferWithPermissions(f, ac, sender, to, v) ==
    LET encAmount == FHE_fromExternal(f, v)
        debited == FHE_sub(encAmount.fhe, ac.balances[sender], encAmount.h)
        ac1 == [ac EXCEPT !.balances[sender] = debited.h]
        credited == FHE_add(debited.fhe, ac1.balances[to], encAmount.h)
        ac2 == [ac1 EXCEPT !.balances[to] = credited.h]
        f1 == FHE_allow(FHE_allowThis(credited.fhe, ac2.balances[sender]),
                        ac2.balances[sender], sender)
        f2 == FHE_allow(FHE_allowThis(f1, ac2.balances[to]), ac2.balances[to], to)
    IN  Done(f2, ac2)

\* getSharedSecret(): the handle a caller reads, if the call does not revert.
getSharedSecret(ac, sender) ==
    IF ac.hasAccess[sender]
    THEN [ok |-> TRUE, value |-> ac.sharedSecret]
    ELSE [ok |-> FALSE, value |-> Uninitialized]

-----------------------------------------------------------------------------
(* The environment an invocation may meet *)

NoFiles == [p \in {} |-> Dir]

\* The text of the repository's source file at a path.
SourceText(p) == << <<"source text of">> \o p >>

\* What an earlier, different generation left in a file.
StaleText == << <<"left by an earlier generation">> >>

\* The nodes together with the directories above them.
Tree(nodes) ==
    [q \in UNION {Prefixes(p) : p \in DOMAIN nodes} |->
        IF q \in DOMAIN nodes THEN nodes[q] ELSE Dir]

Sources(paths) == [p \in paths |-> File(SourceText(p))]

\* Names given on the command line: every registered one, one that is no
\* property at all, and one inherited from Object.prototype.
ArgNames == OwnNames(EXAMPLES_MAP) \cup {"does-not-exist", "constructor"}

CreateArgs ==
    {<< >>} \cup {<<n>> : n \in ArgNames} \cup {<<n, <<"out">>>> : n \in ArgNames}

DocsArgs == {<< >>, <<"--all">>} \cup {<<n>> : n \in ArgNames}

\* The source files of the example named in args: each present or missing.
CreateSources(args) ==
    IF Len(args) > 0 /\ ExampleName(args) \in OwnNames(EXAMPLES_MAP)
    THEN LET cfg == Entry(EXAMPLES_MAP, ExampleName(args))
         IN  {Sources(S) : S \in SUBSET {cfg.contract, cfg.test}}
    ELSE {NoFiles}

\* What the output directory holds before the first invocation: nothing; a
\* complete earlier generation; a file or a directory in the way of a step.
CreateOutputs(args) ==
    IF Len(args) = 0 THEN {NoFiles}
    ELSE LET d == OutputDir(args)
         IN  IF ExampleName(args) \notin OwnNames(EXAMPLES_MAP)
             THEN {NoFiles, (d :> Dir)}
             ELSE LET cfg == Entry(EXAMPLES_MAP, ExampleName(args))
                      c == PathJoin(d, <<"contracts", Basename(cfg.contract)>>)
                      t == PathJoin(d, <<"test", Basename(cfg.test)>>)
                      gen == {PathJoin(d, <<n>>) :
                                n \in {"README.md", "package.json",
                                       "hardhat.config.ts", "tsconfig.json"}}
                  IN  { NoFiles,
                        [q \in {c, t} \cup gen |-> File(StaleText)],
                        (PathJoin(d, <<"contracts">>) :> File(StaleText)),
                        (PathJoin(d, <<"README.md">>) :> Dir),
                        (t :> Dir) }

\* The sources of all examples, with at most one file of the candidates missing.
DocsSources(args) ==
    LET all == UNION {{EXAMPLES_CONFIG[i].contract, EXAMPLES_CONFIG[i].test} :
                        i \in 1..Len(EXAMPLES_CONFIG)}
        cand == IF Len(args) = 0 THEN {}
                ELSE IF ExampleName(args) = "--all" THEN all
                ELSE IF ExampleName(args) \in OwnNames(EXAMPLES_CONFIG)
                THEN {Entry(EXAMPLES_CONFIG, ExampleName(args)).contract,
                      Entry(EXAMPLES_CONFIG, ExampleName(args)).test}
                ELSE {}
    IN  {Sources(all)} \cup {Sources(all \ {m}) : m \in cand}

\* What docs holds before the invocation.
DocsOutputs(args) ==
    LET cfgs == IF Len(args) = 0 THEN {}
                ELSE IF ExampleName(args) = "--all"
                THEN {EXAMPLES_CONFIG[i] : i \in 1..Len(EXAMPLES_CONFIG)}
                ELSE IF ExampleName(args) \in OwnNames(EXAMPLES_CONFIG)
                THEN {Entry(EXAMPLES_CONFIG, ExampleName(args))}
                ELSE {}
        summary == PathJoin(DocsOutputDir, <<"SUMMARY.md">>)
        nested == PathJoin(DocsOutputDir, <<"docs">>)
    IN  { NoFiles,
          (DocsOutputDir :> Dir),
          (DocsOutputDir :> File(StaleText)),
          (nested :> Dir),
          (nested :> Dir) @@ (summary :> Dir),
          [q \in {DocPath(c) : c \in cfgs} \cup {summary} |-> File(StaleText)] @@ (nested :> Dir) }
        \cup {(DocPath(c) :> Dir) : c \in cfgs}
        \cup {(c.output :> File(StaleText)) : c \in cfgs}

\* No contract is deployed.
ContractsIdle ==
    /\ fhe = FHE_empty
    /\ storage = NotDeployed
    /\ call = NoCall

Init ==
    /\ tool \in {"create", "docs"}
    /\ argv \in (IF tool = "create" THEN CreateArgs ELSE DocsArgs)
    /\ fs \in (IF tool = "create"
               THEN {Tree(s @@ o) : s \in CreateSources(argv), o \in CreateOutputs(argv)}
               ELSE {Tree(s @@ o) : s \in DocsSources(argv), o \in DocsOutputs(argv)})
    /\ pc = [p \in Proc |-> IF p = 1 THEN "start" ELSE "idle"]
    /\ status = [p \in Proc |-> -1]
    /\ out = [p \in Proc |-> << >>]
    /\ writes = [p \in Proc |-> << >>]
    /\ idx = 1
    /\ fsStart = [p \in Proc |-> IF p = 1 THEN fs ELSE NoFiles]
    /\ fsEnd = [p \in Proc |-> NoFiles]
    /\ ContractsIdle

\* No generator is running.
GeneratorIdle ==
    /\ tool = "none"
    /\ argv = << >>
    /\ fs = NoFiles
    /\ pc = [p \in Proc |-> "idle"]
    /\ status = [p \in Proc |-> -1]
    /\ out = [p \in Proc |-> << >>]
    /\ writes = [p \in Proc |-> << >>]
    /\ idx = 1
    /\ fsStart = [p \in Proc |-> NoFiles]
    /\ fsEnd = [p \in Proc |-> NoFiles]

-----------------------------------------------------------------------------
(* Actions *)

\* Invocation p takes the step with result r.
Apply(p, r) ==
    /\ fs' = r.fs
    /\ pc' = [pc EXCEPT ![p] = r.pc]
    /\ status' = [status EXCEPT ![p] = r.status]
    /\ out' = [out EXCEPT ![p] = @ \o r.out]
    /\ writes' = [writes EXCEPT ![p] = @ \o r.writes]
    /\ fsEnd' = IF r.pc = "exited" THEN [fsEnd EXCEPT ![p] = r.fs] ELSE fsEnd
    /\ UNCHANGED <<tool, argv, fsStart, contractVars>>

\* The standalone generator is invoked again, with the same arguments, once
\* the invocation before it has ended.
Launch(p) ==
    /\ tool = "create"
    /\ p > 1
    /\ pc[p] = "idle"
    /\ pc[p - 1] \in {"exited", "killed"}
    /\ pc' = [pc EXCEPT ![p] = "start"]
    /\ fsStart' = [fsStart EXCEPT ![p] = fs]
    /\ UNCHANGED <<tool, argv, fs, status, out, writes, idx, fsEnd, contractVars>>

\* The process is interrupted between two steps of main.
Kill(p) ==
    /\ tool = "create"
    /\ pc[p] \in CreatePositions
    /\ pc' = [pc EXCEPT ![p] = "killed"]
    /\ status' = [status EXCEPT ![p] = -1]
    /\ fsEnd' = [fsEnd EXCEPT ![p] = fs]
    /\ UNCHANGED <<tool, argv, fs, out, writes, idx, fsStart, contractVars>>

CreateAt(p, pos) == tool = "create" /\ pc[p] = pos /\ UNCHANGED idx

CreateStart(p) == CreateAt(p, "start") /\ Apply(p, StepStart(fs, argv))

CreateMkdirContracts(p) ==
    CreateAt(p, "mkdir_contracts") /\ Apply(p, StepMkdirContracts(fs, argv))

CreateMkdirTest(p) == CreateAt(p, "mkdir_test") /\ Apply(p, StepMkdirTest(fs, argv))

CreateCheckContract(p) ==
    CreateAt(p, "check_contract") /\ Apply(p, StepCheckContract(fs, argv))

CreateCopyContract(p) ==
    CreateAt(p, "copy_contract") /\ Apply(p, StepCopyContract(fs, argv))

CreateCheckTest(p) == CreateAt(p, "check_test") /\ Apply(p, StepCheckTest(fs, argv))

CreateCopyTest(p) == CreateAt(p, "copy_test") /\ Apply(p, StepCopyTest(fs, argv))

CreateReadme(p) == CreateAt(p, "readme") /\ Apply(p, StepReadme(fs, argv))

CreatePackageJson(p) ==
    CreateAt(p, "package_json") /\ Apply(p, StepPackageJson(fs, argv))

CreateHardhatConfig(p) ==
    CreateAt(p, "hardhat_config") /\ Apply(p, StepHardhatConfig(fs, argv))

CreateTsConfig(p) == CreateAt(p, "ts_config") /\ Apply(p, StepTsConfig(fs, argv))

DocsAt(pos) == tool = "docs" /\ pc[1] = pos

DocsStart == DocsAt("start") /\ Apply(1, DocsStepStart(fs, argv)) /\ UNCHANGED idx

DocsDispatch ==
    DocsAt("dispatch") /\ Apply(1, DocsStepDispatch(fs, argv)) /\ UNCHANGED idx

DocsSingle == DocsAt("single") /\ Apply(1, DocsStepSingle(fs, argv)) /\ UNCHANGED idx

DocsGenerate ==
    /\ DocsAt("all_loop")
    /\ idx <= Len(EXAMPLES_CONFIG)
    /\ Apply(1, DocsStepGenerate(fs, idx))
    /\ idx' = idx + 1

DocsSummary ==
    /\ DocsAt("all_loop")
    /\ idx > Len(EXAMPLES_CONFIG)
    /\ Apply(1, DocsStepSummary(fs))
    /\ UNCHANGED idx

Next ==
    \/ \E p \in Proc :
          \/ Launch(p)
          \/ Kill(p)
          \/ CreateStart(p)
          \/ CreateMkdirContracts(p)
          \/ CreateMkdirTest(p)
          \/ CreateCheckContract(p)
          \/ CreateCopyContract(p)
          \/ CreateCheckTest(p)
          \/ CreateCopyTest(p)
          \/ CreateReadme(p)
          \/ CreatePackageJson(p)
          \/ CreateHardhatConfig(p)
          \/ CreateTsConfig(p)
    \/ DocsStart
    \/ DocsDispatch
    \/ DocsSingle
    \/ DocsGenerate
    \/ DocsSummary

Spec == Init /\ [][Next]_vars

\* Every process slot runs the standalone generator at the same time, all
\* with the same arguments, hence the same example name and output directory.
InitConcurrent ==
    /\ tool = "create"
    /\ argv \in CreateArgs
    /\ fs \in {Tree(s @@ o) : s \in CreateSources(argv), o \in CreateOutputs(argv)}
    /\ pc = [p \in Proc |-> "start"]
    /\ status = [p \in Proc |-> -1]
    /\ out = [p \in Proc |-> << >>]
    /\ writes = [p \in Proc |-> << >>]
    /\ idx = 1
    /\ fsStart = [p \in Proc |-> fs]
    /\ fsEnd = [p \in Proc |-> NoFiles]
    /\ ContractsIdle

\* The steps of the running invocations interleave freely: each step is one
\* synchronous call of main, and nothing orders the calls of two processes.
NextConcurrent ==
    \E p \in Proc :
        \/ CreateStart(p)
        \/ CreateMkdirContracts(p)
        \/ CreateMkdirTest(p)
        \/ CreateCheckContract(p)
        \/ CreateCopyContract(p)
        \/ CreateCheckTest(p)
        \/ CreateCopyTest(p)
        \/ CreateReadme(p)
        \/ CreatePackageJson(p)
        \/ CreateHardhatConfig(p)
        \/ CreateTsConfig(p)

SpecConcurrent == InitConcurrent /\ [][NextConcurrent]_vars

-----------------------------------------------------------------------------
(* Transactions to the example contracts *)

\* The record of the latest transaction: the contract and function called,
\* whether it succeeded, and how many transactions the contract has received.
Called(fn, ok) == [call EXCEPT !.fn = fn, !.ok = ok, !.n = @ + 1]

\* The record of the deployment of a contract.
Deployed(contract) == [contract |-> contract, fn |-> "constructor", ok |-> TRUE, n |-> 0]

\* A transaction to the deployed contract with outcome r, while the contract
\* has received fewer than max transactions.
ContractCall(fn, r, max) ==
    /\ call.n < max
    /\ fhe' = r.fhe
    /\ storage' = r.st
    /\ call' = Called(fn, r.ok)
    /\ UNCHANGED generatorVars

\* ConfidentialERC20 ---------------------------------------------------------

InitERC20 ==
    /\ GeneratorIdle
    /\ \E initialSupply \in 0..MaxInitialSupply :
          LET r == TokenConstructor("deployer", initialSupply)
          IN  fhe = r.fhe /\ storage = r.st
    /\ call = Deployed("ConfidentialERC20")

Transfer(sender, to, a) ==
    ContractCall("transfer", transfer(fhe, storage, sender, to, a), MaxCalls)

Approve(sender, spender, a) ==
    ContractCall("approve", approve(fhe, storage, sender, spender, a), MaxCalls)

TransferFrom(sender, from, to, a) ==
    ContractCall("transferFrom", transferFrom(fhe, storage, sender, from, to, a), MaxCalls)

Mint(sender, to, a) ==
    ContractCall("mint", mint(fhe, storage, sender, to, a), MaxCalls)

NextERC20 ==
    \E sender \in Users, to \in Address, a \in Uint32 :
        \/ Transfer(sender, to, a)
        \/ Approve(sender, to, a)
        \/ \E from \in Address : TransferFrom(sender, from, to, a)
        \/ Mint(sender, to, a)

SpecERC20 == InitERC20 /\ [][NextERC20]_vars

\* BlindAuction ----------------------------------------------------------------

InitAuction ==
    /\ GeneratorIdle
    /\ fhe = FHE_empty
    /\ \E biddingTime \in 0..MaxBiddingTime :
          storage = AuctionConstructor("deployer", 0, biddingTime)
    /\ call = Deployed("BlindAuction")

PlaceBid(sender, v) ==
    ContractCall("placeBid", placeBid(fhe, storage, sender, v), MaxAuctionCalls)

EndAuction(sender) ==
    ContractCall("endAuction", endAuction(fhe, storage, sender), MaxAuctionCalls)

\* A block is mined: block.timestamp grows, up to the end of the auction.
MineBlock ==
    /\ storage.now < storage.auctionEndTime
    /\ storage' = [storage EXCEPT !.now = @ + 1]
    /\ UNCHANGED <<generatorVars, fhe, call>>

NextAuction ==
    \/ \E sender \in Users, v \in Uint32 : PlaceBid(sender, v)
    \/ \E sender \in Users : EndAuction(sender)
    \/ MineBlock

SpecAuction == InitAuction /\ [][NextAuction]_vars

\* PublicDecryptSingleValue ----------------------------------------------------

InitReveal ==
    /\ GeneratorIdle
    /\ fhe = FHE_empty
    /\ storage = RevealDeployed
    /\ call = Deployed("PublicDecryptSingleValue")

SubmitBid(sender, v) ==
    ContractCall("submitBid", submitBid(fhe, storage, sender, v), MaxRevealCalls)

RevealBid(sender) ==
    ContractCall("revealBid", revealBid(fhe, storage, sender), MaxRevealCalls)

DecryptionCallback(sender, plaintext) ==
    ContractCall("decryptionCallback", decryptionCallback(fhe, storage, sender, plaintext), MaxRevealCalls)

NextReveal ==
    \E sender \in Users :
        \/ \E v \in Uint32 : SubmitBid(sender, v)
        \/ RevealBid(sender)
        \/ \E plaintext \in Uint32 : DecryptionCallback(sender, plaintext)

SpecReveal == InitReveal /\ [][NextReveal]_vars

\* FHEAdd ----------------------------------------------------------------------

InitAdder ==
    /\ GeneratorIdle
    /\ fhe = FHE_empty
    /\ storage = AdderDeployed
    /\ call = Deployed("FHEAdd")

Add(sender, v1, v2) ==
    ContractCall("add", add(fhe, storage, sender, v1, v2), MaxCalls)

AddToSum(sender, v) ==
    ContractCall("addToSum", addToSum(fhe, storage, sender, v), MaxCalls)

ResetSum(sender) ==
    ContractCall("resetSum", resetSum(fhe, storage, sender), MaxCalls)

NextAdder ==
    \E sender \in Users :
        \/ \E v1 \in Uint32, v2 \in Uint32 : Add(sender, v1, v2)
        \/ \E v \in Uint32 : AddToSum(sender, v)
        \/ ResetSum(sender)

SpecAdder == InitAdder /\ [][NextAdder]_vars

\* PublicDecryptMultipleValues ------------------------------------------------

InitResults ==
    /\ GeneratorIdle
    /\ fhe = FHE_empty
    /\ storage = ResultsDeployed
    /\ call = Deployed("PublicDecryptMultipleValues")

NextResults ==
    \E sender \in Users, id \in Competitions :
        \/ \E v \in Uint32 :
              ContractCall("submitScore",
                           submitScore(fhe, storage, sender, id, v), MaxResultsCalls)
        \/ ContractCall("revealTopThree",
                        revealTopThree(fhe, storage, sender, id), MaxResultsCalls)
        \/ \E first \in Uint32, second \in Uint32, third \in Uint32 :
              ContractCall("setResults",
                           setResults(fhe, storage, sender, id, first, second, third),
                           MaxResultsCalls)
        \/ \E topScore \in Uint32 :
              ContractCall("revealWinnerOnly",
                           revealWinnerOnly(fhe, storage, sender, id, topScore),
                           MaxResultsCalls)

SpecResults == InitResults /\ [][NextResults]_vars

\* AccessControlExample ---------------------------------------------------------

InitAccess ==
    /\ GeneratorIdle
    /\ fhe = FHE_empty
    /\ storage = AccessConstructor("deployer")
    /\ call = Deployed("AccessControlExample")

NextAccess ==
    \E sender \in Users, v \in Uint32 :
        \/ ContractCall("demonstrateAllowThis",
                        demonstrateAllowThis(fhe, storage, sender, v), MaxAccessCalls)
        \/ ContractCall("demonstrateAllow",
                        demonstrateAllow(fhe, storage, sender, v), MaxAccessCalls)
        \/ \E v2 \in Uint32 :
              ContractCall("demonstrateAllowTransient",
                           demonstrateAllowTransient(fhe, storage, sender, v, v2),
                           MaxAccessCalls)
        \/ \E users \in SUBSET Users :
              ContractCall("shareWithMultipleUsers",
                           shareWithMultipleUsers(fhe, storage, sender, v, users),
                           MaxAccessCalls)
        \/ \E to \in Address :
              ContractCall("transferWithPermissions",
                           transferWithPermissions(fhe, storage, sender, to, v),
                           MaxAccessCalls)

SpecAccess == InitAccess /\ [][NextAccess]_vars

-----------------------------------------------------------------------------
(* Properties *)

Range(q) == {q[i] : i \in 1..Len(q)}

\* The registry the invoked tool reads.
Registry == IF tool = "create" THEN EXAMPLES_MAP ELSE EXAMPLES_CONFIG

\* The invocation was given a name, and the name is a registered example.
NamedRegistered == Len(argv) > 0 /\ ExampleName(argv) \in OwnNames(Registry)

\* The invocation was given a name that is no registered example (and is not
\* the documentation generator's --all).
NamedUnregistered ==
    /\ Len(argv) > 0
    /\ ExampleName(argv) \notin OwnNames(Registry)
    /\ ExampleName(argv) # "--all"

\* The part of a file system strictly below a directory.
Below(f, d) ==
    [q \in {q \in DOMAIN f : Len(q) > Len(d) /\ SubSeq(q, 1, Len(d)) = d} |-> f[q]]

AllMode == tool = "docs" /\ argv = <<"--all">>

SummaryPath == PathJoin(DocsOutputDir, <<"SUMMARY.md">>)

ConfigNumbers == 1..Len(EXAMPLES_CONFIG)

\* C1: in the standalone generator, when the contract or the test source of
\* the resolved example does not exist, the run exits with status 1 and has
\* created or written nothing under the output directory.
C1_MissingSourceWritesNothing ==
    \A p \in Proc :
        ( /\ tool = "create"
          /\ pc[p] = "exited"
          /\ NamedRegistered
          /\ \/ ~Exists(fsStart[p], Entry(EXAMPLES_MAP, ExampleName(argv)).contract)
             \/ ~Exists(fsStart[p], Entry(EXAMPLES_MAP, ExampleName(argv)).test) )
        => /\ status[p] = 1
           /\ Below(fsEnd[p], OutputDir(argv)) = Below(fsStart[p], OutputDir(argv))

\* C2: for every argument that is no registered example name, both tools
\* fail and leave the file system exactly as it was before the call.
C2_UnknownNameTouchesNothing ==
    \A p \in Proc :
        (pc[p] = "exited" /\ NamedUnregistered)
        => (status[p] # 0 /\ fsEnd[p] = fsStart[p])

\* C3: in --all mode, when the write of one example's document fails, the
\* documentation generator still attempts the write of every remaining
\* document and of the summary.  (Stated for runs that find the directory
\* the documents are written into.)
C3_AllModeAttemptsEveryWrite ==
    (AllMode /\ pc[1] = "exited" /\ IsDir(fsStart[1], <<"docs", "docs">>))
    => /\ \A i \in ConfigNumbers : DocPath(EXAMPLES_CONFIG[i]) \in Range(writes[1])
       /\ SummaryPath \in Range(writes[1])

\* C4: a documentation-generator run for a registered name n writes the
\* document to docs/<n>.md, directly inside docs/, and to no other path.
C4_DocumentWrittenDirectlyUnderDocs ==
    (tool = "docs" /\ pc[1] = "exited" /\ NamedRegistered)
    => LET cfg == Entry(EXAMPLES_CONFIG, ExampleName(argv))
       IN  /\ Parent(cfg.output) = <<"docs">>
           /\ writes[1] = <<cfg.output>>

\* The link targets of the bullet lines of a summary text, in order.
BulletTargets(text) ==
    LET IsBullet(line) == line[1] = "- ["
        bullets == SelectSeq(text, IsBullet)
    IN  [i \in 1..Len(bullets) |-> SubSeq(bullets[i], 4, Len(bullets[i]) - 1)]

\* C5: starting with no docs/ directory, a --all run over the N registered
\* examples ends with exactly N documents directly under docs/, named per
\* descriptor, plus docs/SUMMARY.md with exactly N bullet links, one per
\* example, in declaration order.
C5_AllModeProducesDocsAndSummary ==
    (AllMode /\ pc[1] = "exited" /\ ~Exists(fsStart[1], DocsOutputDir))
    => /\ {q \in DOMAIN fs : Parent(q) = DocsOutputDir}
            = {EXAMPLES_CONFIG[i].output : i \in ConfigNumbers} \cup {SummaryPath}
       /\ \A i \in ConfigNumbers : IsFile(fs, EXAMPLES_CONFIG[i].output)
       /\ IsFile(fs, SummaryPath)
       /\ BulletTargets(fs[SummaryPath].data)
            = [i \in ConfigNumbers |-> Tail(EXAMPLES_CONFIG[i].output)]

\* The examples with a source file missing when the invocation started.
MissingSource ==
    {i \in ConfigNumbers : \/ ~Exists(fsStart[1], EXAMPLES_CONFIG[i].contract)
                           \/ ~Exists(fsStart[1], EXAMPLES_CONFIG[i].test)}

\* The document of a configuration exists, under docs/ or where the code
\* writes it, with the text generated from the sources.
Produced(f, cfg) ==
    \E q \in {cfg.output, DocPath(cfg)} :
        IsFile(f, q) /\ f[q].data = generateDocumentation(fsStart[1], cfg)

\* C6: in --all mode, when a source file of one example is missing, the
\* documents of all other examples are still produced and SUMMARY.md still
\* lists every registered example.
C6_MissingSourceKeepsOtherDocuments ==
    (AllMode /\ pc[1] = "exited" /\ Cardinality(MissingSource) = 1)
    => /\ \A i \in ConfigNumbers \ MissingSource : Produced(fs, EXAMPLES_CONFIG[i])
       /\ IsFile(fs, SummaryPath)
       /\ BulletTargets(fs[SummaryPath].data)
            = [i \in ConfigNumbers |-> Tail(EXAMPLES_CONFIG[i].output)]

\* Every registered name of the invoked tool is among the lines printed.
ListsEveryName(p) ==
    \A n \in OwnNames(Registry) : <<"  - ", n>> \in Range(out[p])

\* C7: either tool, invoked with a name that is not in the registry, exits
\* with a non-zero status and prints the full list of registered names.
C7_UnknownNameListsExamples ==
    \A p \in Proc :
        (pc[p] = "exited" /\ NamedUnregistered)
        => (status[p] # 0 /\ ListsEveryName(p))

\* C8: invoked with no arguments, each tool prints every registered example
\* name, exits with a non-zero status and creates or modifies nothing on disk.
C8_NoArgumentsListsAndTouchesNothing ==
    \A p \in Proc :
        (pc[p] = "exited" /\ Len(argv) = 0)
        => /\ ListsEveryName(p)
           /\ status[p] > 0
           /\ fsEnd[p] = fsStart[p]
           /\ fs = fsStart[1]

\* C8 witness: the documentation generator has ended a run without
\* arguments that started with no docs directory.
C8_Witness ==
    /\ tool = "docs"
    /\ pc[1] = "exited"
    /\ Len(argv) = 0
    /\ ~Exists(fsStart[1], DocsOutputDir)

\* C9: two successive complete runs of the standalone generator with the
\* same name and output directory leave the file system after the second
\* run identical to what it was after the first.
C9_SecondRunChangesNothing ==
    \A p \in Proc \ {1} :
        (tool = "create" /\ pc[p - 1] = "exited" /\ pc[p] = "exited")
        => fsEnd[p] = fsEnd[p - 1]

\* C9 witness: two successful runs in a row, the first of which replaced
\* what an earlier generation had left.
C9_Witness ==
    /\ tool = "create"
    /\ pc[1] = "exited" /\ status[1] = 0
    /\ pc[2] = "exited" /\ status[2] = 0
    /\ fsEnd[1] # fsStart[1]
    /\ \E q \in DOMAIN fsStart[1] : fsStart[1][q] = File(StaleText)

\* C10: when a run of the standalone generator is interrupted after any
\* prefix of its steps, a following complete run with the same arguments
\* ends in the state a single uninterrupted run ends in.
C10_RerunAfterInterruptReachesSameState ==
    \A p \in Proc \ {1} :
        (tool = "create" /\ pc[p - 1] = "killed" /\ pc[p] = "exited")
        => fsEnd[p] = RunCreate("start", fsStart[p - 1], argv)

\* C10 witness: a run interrupted after it had written part of the output,
\* followed by a run that completed the output successfully.
C10_Witness ==
    /\ tool = "create"
    /\ pc[1] = "killed"
    /\ fsEnd[1] # fsStart[1]
    /\ pc[2] = "exited" /\ status[2] = 0
    /\ fsEnd[2] # fsEnd[1]

\* C11: whenever the standalone generator exits with status 0, the copied
\* contract and test under the output directory are byte-equal to their
\* sources, README.md, package.json, hardhat.config.ts and tsconfig.json exist
\* directly under the output directory, and README.md contains the
\* example's description.
C11_SuccessfulRunLeavesCompleteProject ==
    \A p \in Proc :
        (tool = "create" /\ pc[p] = "exited" /\ status[p] = 0)
        => LET cfg == Entry(EXAMPLES_MAP, ExampleName(argv))
               d == OutputDir(argv)
               c == PathJoin(d, <<"contracts", Basename(cfg.contract)>>)
               t == PathJoin(d, <<"test", Basename(cfg.test)>>)
               f == fsEnd[p]
           IN  /\ NamedRegistered
               /\ IsFile(f, c) /\ IsFile(f, cfg.contract)
               /\ f[c].data = f[cfg.contract].data
               /\ f[c].data = fsStart[1][cfg.contract].data
               /\ IsFile(f, t) /\ IsFile(f, cfg.test)
               /\ f[t].data = f[cfg.test].data
               /\ f[t].data = fsStart[1][cfg.test].data
               /\ \A n \in {"README.md", "package.json", "hardhat.config.ts",
                            "tsconfig.json"} : IsFile(f, PathJoin(d, <<n>>))
               /\ <<cfg.description>> \in Range(f[PathJoin(d, <<"README.md">>)].data)

\* C11 witness: a run that exited with status 0 over an output directory
\* holding the files of an earlier generation.
C11_Witness ==
    /\ tool = "create"
    /\ pc[1] = "exited" /\ status[1] = 0
    /\ \E q \in DOMAIN fsStart[1] : fsStart[1][q] = File(StaleText)

\* The first string of every line of a text that opens a section of a
\* generated document.
SectionHeads(text) ==
    LET heads == {"# ", "**Category:** ", "## Overview", "## Key Concepts",
                  "## Smart Contract", "## Test Examples", "## Critical Patterns",
                  "## Common Pitfalls", "## Running the Example", "## Resources",
                  "## License"}
        IsHead(line) == line[1] \in heads
        lines == SelectSeq(text, IsHead)
    IN  [i \in 1..Len(lines) |-> lines[i][1]]

\* C12: every document the documentation generator produces has its
\* sections in the order title and category, overview, key concepts, contract
\* source, test source, critical patterns, common pitfalls, running
\* instructions, resources, license.
C12_SectionsInStatedOrder ==
    \A i \in ConfigNumbers :
        LET q == DocPath(EXAMPLES_CONFIG[i])
        IN  (tool = "docs" /\ q \in Range(writes[1]) /\ IsFile(fs, q))
            => SectionHeads(fs[q].data)
                 = <<"# ", "**Category:** ", "## Overview", "## Key Concepts",
                     "## Smart Contract", "## Test Examples", "## Critical Patterns",
                     "## Common Pitfalls", "## Running the Example", "## Resources",
                     "## License">>

\* The registry of the tool that is not running.
OtherRegistry == IF tool = "create" THEN EXAMPLES_CONFIG ELSE EXAMPLES_MAP

\* C13: the two tools list exactly the same example names in the same order,
\* and the entry the running tool resolves a registered name to has the same
\* contract path, test path, description and category as the entry the other
\* tool resolves that name to.
C13_RegistriesAgree ==
    /\ ObjectKeys(Registry) = ObjectKeys(OtherRegistry)
    /\ NamedRegistered
       => LET mine == Entry(Registry, ExampleName(argv))
              other == Entry(OtherRegistry, ExampleName(argv))
          IN  /\ ExampleName(argv) \in OwnNames(OtherRegistry)
              /\ mine.contract = other.contract
              /\ mine.test = other.test
              /\ mine.description = other.description
              /\ mine.category = other.category

\* C14: a successful run of the standalone generator creates a .gitignore
\* file in the output directory.
C14_SuccessfulRunCreatesGitignore ==
    \A p \in Proc :
        (tool = "create" /\ pc[p] = "exited" /\ status[p] = 0)
        => IsFile(fsEnd[p], PathJoin(OutputDir(argv), <<".gitignore">>))

\* What account x would read after decrypting its balance.
BalanceOf(f, t, x) == Decrypt(f, t.balances[x])

\* C15: a successful transfer(to, a) by sender s with to different from s
\* decreases s's decrypted balance by a and increases to's decrypted balance
\* by a, both in wrap-around arithmetic, and changes no other account's
\* balance and not totalSupply.
C15_TransferMovesAmount ==
    [][\A s \in Users, to \in Address, a \in Uint32 :
          (to # s /\ Transfer(s, to, a) /\ call'.ok)
          => /\ BalanceOf(fhe', storage', s)
                  = (BalanceOf(fhe, storage, s) - a + EuintModulus) % EuintModulus
             /\ BalanceOf(fhe', storage', to)
                  = (BalanceOf(fhe, storage, to) + a) % EuintModulus
             /\ \A x \in Address \ {s, to} :
                   BalanceOf(fhe', storage', x) = BalanceOf(fhe, storage, x)
             /\ storage'.totalSupply = storage.totalSupply]_vars

\* C15 witness: a transfer of 1 between two different accounts has succeeded
\* and the recipient's balance has wrapped around to 0.
C15_Witness ==
    /\ call.contract = "ConfidentialERC20"
    /\ call.fn = "transfer" /\ call.ok
    /\ \E s \in Users, to \in Users :
          /\ s # to
          /\ storage.balances[s] = Len(fhe.val) - 1
          /\ storage.balances[to] = Len(fhe.val)
          /\ fhe.val[Len(fhe.val) - 2] = 1
          /\ BalanceOf(fhe, storage, to) = 0

\* C16 as stated: mint(to, a) succeeds only when the caller is the owner and
\* to is not the zero address; on success totalSupply increases by exactly a
\* and to's decrypted balance increases by a; a call by any other address
\* reverts and changes no state.
C16_MintAddsAmount ==
    [][\A s \in Users, to \in Address, a \in Uint32 :
          Mint(s, to, a)
          => /\ call'.ok => (s = storage.owner /\ to # ZeroAddress)
             /\ call'.ok => /\ storage'.totalSupply = storage.totalSupply + a
                            /\ BalanceOf(fhe', storage', to) = BalanceOf(fhe, storage, to) + a
             /\ s # storage.owner => (~call'.ok /\ UNCHANGED <<fhe, storage>>)]_vars

\* C16 amended: as C16, with to's decrypted balance increasing by a in
\* wrap-around arithmetic (modulo the number of euint32 values).
C16_MintAddsAmountWrapping ==
    [][\A s \in Users, to \in Address, a \in Uint32 :
          Mint(s, to, a)
          => /\ call'.ok => (s = storage.owner /\ to # ZeroAddress)
             /\ call'.ok => /\ storage'.totalSupply = storage.totalSupply + a
                            /\ BalanceOf(fhe', storage', to)
                                 = (BalanceOf(fhe, storage, to) + a) % EuintModulus
             /\ s # storage.owner => (~call'.ok /\ UNCHANGED <<fhe, storage>>)]_vars

\* C16 witness: the owner has minted 1 to an account whose balance was at
\* the largest euint32, and the balance is now 0.
C16_Witness ==
    /\ call.contract = "ConfidentialERC20"
    /\ call.fn = "mint" /\ call.ok
    /\ \E to \in Users :
          /\ storage.balances[to] = Len(fhe.val)
          /\ fhe.val[Len(fhe.val) - 1] = 1
          /\ BalanceOf(fhe, storage, to) = 0

\* C17: for every account a, no address other than a and the token contract
\* holds decryption permission on the handle stored as a's balance.
C17_OnlyHolderDecryptsBalance ==
    call.contract = "ConfidentialERC20"
    => \A a \in Address :
          \A x \in Address \ {a} : ~IsAllowed(fhe, storage.balances[a], x)

\* C17 witness: a spender has moved tokens of another account with
\* transferFrom; both parties hold permission on their new balances and the
\* spender holds permission on the remaining allowance.
C17_Witness ==
    /\ call.contract = "ConfidentialERC20"
    /\ call.fn = "transferFrom" /\ call.ok
    /\ \E from \in Users, to \in Users, spender \in Users :
          /\ from # to /\ spender # from
          /\ IsAllowed(fhe, storage.balances[from], from)
          /\ IsAllowed(fhe, storage.balances[to], to)
          /\ storage.balances[to] = Len(fhe.val)
          /\ IsAllowed(fhe, storage.allowances[<<from, spender>>], spender)

\* The accounts that placed a bid.
Bidders == {b \in Address : storage.hasBid[b]}

\* C18: after bids have been placed and the auction has been ended, the
\* publicly readable highestBidder is an address that placed a bid, and no
\* bid is higher than the bid it placed.
C18_WinnerPlacedHighestBid ==
    (call.contract = "BlindAuction" /\ storage.ended /\ Bidders # {})
    => /\ storage.highestBidder \in Bidders
       /\ \A b \in Bidders :
             Decrypt(fhe, storage.bids[storage.highestBidder])
                >= Decrypt(fhe, storage.bids[b])

\* C19: once isRevealed is true it never becomes false again, and the value
\* getRevealedBid returns never changes in any later state.
C19_RevealedBidIsFinal ==
    [][(call.contract = "PublicDecryptSingleValue" /\ storage.isRevealed)
          => /\ storage'.isRevealed
             /\ getRevealedBid(storage') = getRevealedBid(storage)]_vars

\* The newly deployed FHEAdd has received exactly two transactions: addToSum
\* from first, then addToSum from second.  The first call produced the
\* handles 1 (its input) and 2 (the sum), the second 3 and 4.
TwoUsersAdded(first, second) ==
    /\ call.contract = "FHEAdd"
    /\ call.n = 2 /\ call.fn = "addToSum"
    /\ Len(fhe.val) = 4
    /\ first # second
    /\ IsAllowed(fhe, 2, first)
    /\ IsAllowed(fhe, 4, second)

\* C20: after two different users have each added a value to the running
\* sum, the user who added first can still decrypt the stored sum, and the
\* decrypted sum is the total of both values (in euint32 arithmetic).
C20_FirstAdderDecryptsTotal ==
    \A first \in Users, second \in Users :
        TwoUsersAdded(first, second)
        => /\ IsAllowed(fhe, storage.encryptedSum, first)
           /\ Decrypt(fhe, storage.encryptedSum) = (fhe.val[1] + fhe.val[3]) % EuintModulus

\* C21: placeBid never succeeds when the block time is at or after
\* auctionEndTime, and endAuction never succeeds when the block time is
\* before auctionEndTime or when the caller is not the owner.
C21_TimeLockAndOwnerEnforced ==
    [][/\ \A sender \in Users, v \in Uint32 :
             (PlaceBid(sender, v) /\ call'.ok)
             => storage.now < storage.auctionEndTime
       /\ \A sender \in Users :
             (EndAuction(sender) /\ call'.ok)
             => /\ storage.now >= storage.auctionEndTime
                /\ sender = storage.owner]_vars

\* C21 witness: the auction is over and was never ended, nobody has bid, and
\* the latest transaction, a placeBid or an endAuction, was rejected: a late
\* bid, or an endAuction by an address that is not the owner.
C21_Witness ==
    /\ call.contract = "BlindAuction"
    /\ call.fn \in {"placeBid", "endAuction"} /\ ~call.ok
    /\ storage.now >= storage.auctionEndTime
    /\ ~storage.ended
    /\ Bidders = {}

\* C22: isMyBidHigher never succeeds while bidding is still open, that is
\* while the block time is before auctionEndTime.
C22_NoComparisonWhileBiddingOpen ==
    (call.contract = "BlindAuction" /\ storage.now < storage.auctionEndTime)
    => \A sender \in Users, other \in Address :
          ~isMyBidHigher(fhe, storage, sender, other).ok

\* C30: once ended is true, no later transaction changes ended, hasBid, the
\* stored bids, highestBid or highestBidder, and none succeeds: endAuction
\* succeeds at most once and no bid is accepted after the auction was ended.
\* The block time never decreases.
C30_EndedAuctionIsFrozen ==
    [][(call.contract = "BlindAuction" /\ storage.ended)
          => /\ storage'.ended
             /\ storage'.hasBid = storage.hasBid
             /\ storage'.bids = storage.bids
             /\ storage'.highestBid = storage.highestBid
             /\ storage'.highestBidder = storage.highestBidder
             /\ storage'.now >= storage.now
             /\ call'.n # call.n => ~call'.ok]_vars

\* C30 witness: the auction has been ended and a transaction sent after that,
\* a placeBid or another endAuction, was rejected.
C30_Witness ==
    /\ call.contract = "BlindAuction"
    /\ storage.ended
    /\ call.fn \in {"placeBid", "endAuction"} /\ ~call.ok

\* C23: transferFrom(from, to, a) called by spender p reduces from's decrypted
\* balance only if a is at most the allowance from has currently approved for
\* p; with a larger amount, or with no approval, from's balance is not
\* reduced.
C23_TransferFromNeedsAllowance ==
    [][\A p \in Users, from \in Address, to \in Address, a \in Uint32 :
          (/\ TransferFrom(p, from, to, a)
           /\ BalanceOf(fhe', storage', from) < BalanceOf(fhe, storage, from))
          => a <= Decrypt(fhe, storage.allowances[<<from, p>>])]_vars

RECURSIVE SumOfBalances(_, _, _)
\* The sum of the decrypted balances of a set of accounts.
SumOfBalances(f, t, accounts) ==
    IF accounts = {}
    THEN 0
    ELSE LET x == CHOOSE y \in accounts : TRUE
         IN  BalanceOf(f, t, x) + SumOfBalances(f, t, accounts \ {x})

\* C29: in every reachable state of ConfidentialERC20 the sum of all
\* accounts' decrypted balances is congruent to totalSupply modulo the number
\* of euint32 values.
C29_BalancesSumToSupply ==
    call.contract = "ConfidentialERC20"
    => SumOfBalances(fhe, storage, Address) % EuintModulus
          = storage.totalSupply % EuintModulus

\* C29 witness: a subtraction has wrapped around (an account that held 0 now
\* holds the largest euint32 after sending 1), two accounts hold a balance
\* handle, and totalSupply is larger than any euint32.
C29_Witness ==
    /\ call.contract = "ConfidentialERC20"
    /\ call.fn \in {"transfer", "transferFrom"} /\ call.ok
    /\ storage.totalSupply >= EuintModulus
    /\ \E s \in Users, to \in Users :
          /\ s # to
          /\ storage.balances[s] # Uninitialized
          /\ storage.balances[to] # Uninitialized
          /\ BalanceOf(fhe, storage, s) = EuintModulus - 1
          /\ SumOfBalances(fhe, storage, Address) # storage.totalSupply

\* C26: FHEAdd.resetSum succeeds only when the deployer calls it; a call from
\* any other address leaves the stored sum (its handle and its value) as it
\* was.
C26_ResetSumOnlyByOwner ==
    [][\A sender \in Users :
          (ResetSum(sender) /\ sender # "deployer")
          => /\ ~call'.ok
             /\ storage'.encryptedSum = storage.encryptedSum
             /\ Decrypt(fhe', storage'.encryptedSum) = Decrypt(fhe, storage.encryptedSum)]_vars

\* C27: each tool treats its name argument as a known example exactly when
\* the name is one the tool lists (the documentation generator also accepts
\* --all); any other name, such as "constructor", is rejected with the
\* "Unknown example" error.
C27_KnownExactlyWhenListed ==
    \A p \in Proc :
        (pc[p] = "exited" /\ Len(argv) > 0)
        => LET name == ExampleName(argv)
               listed == <<"  - ", name>> \in Range(UsageLines(Registry))
               accepted == listed \/ (tool = "docs" /\ name = "--all")
               rejected == ErrorLine(<<"Unknown example: ", name>>) \in Range(out[p])
           IN  rejected <=> ~accepted

\* One whole invocation of main running alone: what its last step leaves.
RECURSIVE SingleRun(_, _, _)
SingleRun(pos, f, args) ==
    LET r == CreateStep(pos, f, args)
    IN  IF r.pc = "exited" THEN r ELSE SingleRun(r.pc, r.fs, args)

\* C28: when concurrent standalone-generator invocations with the same
\* example name and output directory have all ended, whatever the
\* interleaving of their steps, and one invocation running alone from the
\* same file system would have succeeded, every invocation has exited with
\* status 0 and the output directory is what the single invocation produces.
C28_ConcurrentRunsConverge ==
    (tool = "create" /\ \A p \in Proc : pc[p] = "exited")
    => LET one == SingleRun("start", fsStart[1], argv)
       IN  one.status = 0
           => /\ \A p \in Proc : status[p] = 0
              /\ Below(fs, OutputDir(argv)) = Below(one.fs, OutputDir(argv))

\* C28 witness: the invocations all started on the same output directory,
\* which held stale files that none of them had replaced yet, and all have
\* ended with status 0 after writing every destination.
C28_Witness ==
    /\ tool = "create"
    /\ \A p \in Proc : pc[p] = "exited" /\ status[p] = 0
    /\ \A p \in Proc : fsStart[p] = fsStart[1]
    /\ IsFile(fsStart[1], PathJoin(OutputDir(argv), <<"README.md">>))
    /\ \A p \in Proc : Len(writes[p]) = 6
    /\ fs[PathJoin(OutputDir(argv), <<"README.md">>)]
          # fsStart[1][PathJoin(OutputDir(argv), <<"README.md">>)]

\* C24: in PublicDecryptMultipleValues, once results[id].revealed is true
\* for a competition id, the stored firstPlace, secondPlace and thirdPlace of
\* that competition are the same in every later state.
C24_RevealedResultsNeverChange ==
    [][call.contract = "PublicDecryptMultipleValues"
       => \A id \in Competitions :
             storage.results[id].revealed
             => /\ storage'.results[id].firstPlace = storage.results[id].firstPlace
                /\ storage'.results[id].secondPlace = storage.results[id].secondPlace
                /\ storage'.results[id].thirdPlace = storage.results[id].thirdPlace]_vars

\* C25: in every reachable state of AccessControlExample, every address u
\* with hasAccess[u] = true (every address getSharedSecret answers) holds
\* decryption permission on the handle stored as sharedSecret.
C25_AccessMeansPermission ==
    call.contract = "AccessControlExample"
    => \A u \in Address :
          getSharedSecret(storage, u).ok
          => IsAllowed(fhe, getSharedSecret(storage, u).value, u)

=============================================================================
